---- MODULE Spec2Model ----
(***************************************************************************)
(* A model of nv2a-to-pbkit.py: the trace log is read line by line into a  *)
(* list of PGRAPHMethod records (_process_file), the list is optionally    *)
(* cut to a window of draws (_filter_draws) or of lines, and the result is *)
(* printed as pbkit / PBKitPlusPlus code (_emit_commands).                 *)
(***************************************************************************)
EXTENDS Integers, Sequences, FiniteSets, TLC

VARIABLES
    pc,              \* "parse" | "parsed" | "done" | "error": position in run()
    line_number,     \* number of lines of the log read so far
    draw_number,     \* _process_file's local draw_number
    in_begin_end,    \* _process_file's local in_begin_end
    pgraph_methods,  \* _process_file's list of records
    args,            \* the argparse namespace run() reads
    commands,        \* the list handed to _emit_commands
    log,             \* the lines of the file read so far
    out              \* the lines printed so far

vars == <<pc, line_number, draw_number, in_begin_end, pgraph_methods, args, commands, log, out>>

(***************************************************************************)
(* Bounds of the model.                                                    *)
(***************************************************************************)
MaxLines == 4        \* longest log of the full pipeline (Spec)
MaxParseLines == 6   \* longest log of the parser alone (SpecParse)
MaxStartDraw == 2    \* largest --start_draw
MaxDraws == 2        \* largest --max_draws
MaxStartLine == 2    \* largest --start_line below "past the end"
MaxCommands == 1     \* largest --max_commands
MaxEmitLen == 66     \* longest command list of the emitter alone (SpecEmit)

(***************************************************************************)
(* Program constants.                                                      *)
(***************************************************************************)
MAX_COMMANDS_PER_FLUSH == 32

BEGIN_END == 6140    \* 0x17FC

KELVIN == 151        \* 0x97, the graphics class the classifiers compare with

STATELESS_COMMANDS == {256, 272, 288, 300, 304, 5904, 6096, 6140, 7536}

NON_PORTABLE_STATEFUL_COMMANDS ==
    {528, 532, 6912, 6976, 7040, 7104, 6088}
        \cup {5920 + 4 * i : i \in 0..15}

None == "None"       \* Python's None where a string may stand

(***************************************************************************)
(* Log lines.  A line is abstracted to the first dialect whose regular     *)
(* expression matches it ("none" when no one does) and the tokens the      *)
(* match groups hold.  The parenthesised argument of the annotated         *)
(* dialect is abstracted to the first sub-form that matches it ("bad"      *)
(* when no one does).                                                      *)
(***************************************************************************)
HexArg(v) == [form |-> "hex", hex |-> v, text |-> "", float |-> None]

\* nv2a_pgraph_method 0: NV20_KELVIN_PRIMITIVE<0x97> -> NV097_SET_BEGIN_END<0x17fc> (NV097_SET_BEGIN_END_OP_TRIANGLES<0x5>)
LineBegin ==
    [dialect |-> "pretty", chan |-> 0, cls |-> KELVIN, op |-> BEGIN_END,
     name |-> "NV097_SET_BEGIN_END",
     arg |-> [form |-> "named", hex |-> 5, text |-> "NV097_SET_BEGIN_END_OP_TRIANGLES", float |-> None]]

\* nv2a_pgraph_method 0: NV20_KELVIN_PRIMITIVE<0x97> -> NV097_SET_BEGIN_END<0x17fc> (NV097_SET_BEGIN_END_OP_END<0x0>)
LineEnd ==
    [dialect |-> "pretty", chan |-> 0, cls |-> KELVIN, op |-> BEGIN_END,
     name |-> "NV097_SET_BEGIN_END",
     arg |-> [form |-> "named", hex |-> 0, text |-> "NV097_SET_BEGIN_END_OP_END", float |-> None]]

\* nv2a_pgraph_method 0: 0x97 -> 0x1800 0x11000F
LineState ==
    [dialect |-> "raw", chan |-> 0, cls |-> KELVIN, op |-> 6144,
     name |-> None, arg |-> HexArg(1114127)]

\* nv2a_pgraph_method_unhandled 1: 0x39 -> 0x1800 0x0
LineOther ==
    [dialect |-> "unhandled", chan |-> 1, cls |-> 57, op |-> 6144,
     name |-> None, arg |-> HexArg(0)]

\* nv2a_pgraph_method 0: NV20_KELVIN_PRIMITIVE<0x97> -> NV097_SET_TEXTURE_OFFSET<0x1B00> (0x00000000 => 0.000000)
LineOffset ==
    [dialect |-> "pretty", chan |-> 0, cls |-> KELVIN, op |-> 6912,
     name |-> "NV097_SET_TEXTURE_OFFSET",
     arg |-> [form |-> "float", hex |-> 0, text |-> "", float |-> "0.000000"]]

\* nv2a_pgraph_method 0: NV20_KELVIN_PRIMITIVE<0x97> -> NV097_SET_OBJECT<0x0> (?)
LineBad ==
    [dialect |-> "pretty", chan |-> 0, cls |-> KELVIN, op |-> 0,
     name |-> "NV097_SET_OBJECT",
     arg |-> [form |-> "bad", hex |-> 0, text |-> "?", float |-> None]]

\* any line no dialect matches
LineNoise ==
    [dialect |-> "none", chan |-> 0, cls |-> 0, op |-> 0,
     name |-> None, arg |-> HexArg(0)]

LogLines == {LineBegin, LineEnd, LineState, LineOther, LineOffset, LineBad, LineNoise}

\* the lines of the logs the full pipeline is run on
PipelineLines == LogLines \ {LineNoise}

(***************************************************************************)
(* PGRAPHMethod and its properties.                                        *)
(***************************************************************************)
PGRAPHMethod(ln, dn, chan, cls, op, param, name, flt, descr, ibe) ==
    [kind |-> "method", line_number |-> ln, draw_number |-> dn,
     nv_channel |-> chan, nv_class |-> cls, nv_op |-> op, nv_param |-> param,
     nv_op_name |-> name, nv_param_float |-> flt, nv_param_description |-> descr,
     in_begin_end_block |-> ibe]

PGRAPHComment(message) == [kind |-> "comment", message |-> message]

is_beginend_begin(self) ==
    self.nv_class = KELVIN /\ self.nv_op = BEGIN_END /\ self.nv_param # 0

is_beginend_end(self) ==
    self.nv_class = KELVIN /\ self.nv_op = BEGIN_END /\ self.nv_param = 0

is_stateful_block_first(self) ==
    IF self.in_begin_end_block THEN FALSE
    ELSE IF self.nv_class # KELVIN THEN TRUE
    ELSE self.nv_op \notin STATELESS_COMMANDS

is_stateful_ignores_block(self) ==
    IF self.nv_class # KELVIN THEN TRUE
    ELSE self.nv_op \notin STATELESS_COMMANDS

is_stateful(self) ==
    IF self.nv_class # KELVIN THEN TRUE
    ELSE IF self.in_begin_end_block THEN FALSE
    ELSE self.nv_op \notin STATELESS_COMMANDS

is_non_portable(self) ==
    self.nv_class = KELVIN /\ self.nv_op \in NON_PORTABLE_STATEFUL_COMMANDS

(***************************************************************************)
(* _process_pretty_param: the five sub-forms in priority order, or the     *)
(* NotImplementedError.  float() of the logged literal is its value, which *)
(* Python prints in shortest form.                                         *)
(***************************************************************************)
ParseFloat(text) ==
    CASE text = "0.000000" -> "0.0"
      [] text = "1.000000" -> "1.0"
      [] OTHER -> text

_process_pretty_param(param) ==
    CASE param.form = "float" ->
            [raised |-> FALSE, value |-> param.hex, descr |-> "", float |-> ParseFloat(param.float)]
      [] param.form = "bitvector" ->
            [raised |-> FALSE, value |-> param.hex, descr |-> param.text, float |-> None]
      [] param.form = "named" ->
            [raised |-> FALSE, value |-> param.hex, descr |-> param.text, float |-> None]
      [] param.form = "hex" ->
            [raised |-> FALSE, value |-> param.hex, descr |-> "", float |-> None]
      [] param.form = "raw" ->
            [raised |-> FALSE, value |-> param.hex, descr |-> "", float |-> None]
      [] OTHER ->
            [raised |-> TRUE, value |-> 0, descr |-> "", float |-> None]

(***************************************************************************)
(* The body of _process_file's loop.                                       *)
(***************************************************************************)
NeverRaises(line) == FALSE

\* the exception of line 381, which ends the run
LineRaises(line) ==
    line.dialect = "pretty" /\ _process_pretty_param(line.arg).raised

FlagAfterUpdate(ibe, line) ==
    IF line.cls = KELVIN /\ line.op = BEGIN_END THEN line.arg.hex # 0 ELSE ibe

\* the value the constructor calls give in_begin_end_block
FlagOfRecord(ibe, line) == ibe

\* the record built from a line that matches a dialect
MethodOfLine(line, ln, dn, ibe) ==
    CASE line.dialect = "raw" ->
            PGRAPHMethod(ln, dn, line.chan, line.cls, line.op, line.arg.hex,
                         line.name, None, None, FlagOfRecord(ibe, line))
      [] line.dialect = "pretty" ->
            LET p == _process_pretty_param(line.arg) IN
            PGRAPHMethod(ln, dn, line.chan, line.cls, line.op, p.value,
                         line.name, p.float, p.descr, FlagOfRecord(ibe, line))
      [] line.dialect = "unhandled" ->
            PGRAPHMethod(ln, dn, line.chan, line.cls, line.op, line.arg.hex,
                         None, None, None, FlagOfRecord(ibe, line))

InBeginEndNeverCloses(method, ibe) ==
    IF is_beginend_begin(method) THEN TRUE ELSE ibe

\* in_begin_end after the record was examined (lines 409-413)
InBeginEndAfter(method, ibe) ==
    IF is_beginend_end(method) THEN FALSE
    ELSE IF is_beginend_begin(method) THEN TRUE
    ELSE ibe

DrawAfterOnBegin(method, dn) == IF is_beginend_begin(method) THEN dn + 1 ELSE dn

\* draw_number after the record was examined (lines 412-414)
DrawAfter(method, dn) == IF is_beginend_end(method) THEN dn + 1 ELSE dn

ZeroBased(index) == index

\* line_number + 1 of lines 368, 383, 399: enumerate counts from 0
OneBased(index) == index + 1

ProcessLineUpTo(line, bound) ==
    /\ pc = "parse"
    /\ line_number < bound
    /\ line_number' = line_number + 1
    /\ log' = Append(log, line)
    /\ IF LineRaises(line)
         THEN /\ pc' = "error"
              /\ UNCHANGED <<draw_number, in_begin_end, pgraph_methods>>
       ELSE IF line.dialect = "none"
         THEN UNCHANGED <<pc, draw_number, in_begin_end, pgraph_methods>>
       ELSE LET method == MethodOfLine(line, OneBased(line_number), draw_number, in_begin_end) IN
              /\ in_begin_end' = InBeginEndAfter(method, in_begin_end)
              /\ draw_number' = DrawAfter(method, draw_number)
              /\ pgraph_methods' = Append(pgraph_methods, method)
              /\ UNCHANGED pc
    /\ UNCHANGED <<args, commands, out>>

ProcessLine(line) == ProcessLineUpTo(line, MaxLines)

\* the file is exhausted: _process_file returns its list
EndOfFile ==
    /\ pc = "parse"
    /\ pc' = "parsed"
    /\ commands' = pgraph_methods
    /\ UNCHANGED <<line_number, draw_number, in_begin_end, pgraph_methods, args, log, out>>

(***************************************************************************)
(* _first_command_at_or_after: the index (1-based here) of the first       *)
(* command on or after a line, 0 for Python's None.                        *)
(***************************************************************************)
RECURSIVE FirstFrom(_, _, _)
FirstFrom(line_num, cmds, index) ==
    IF index > Len(cmds) THEN 0
    ELSE IF cmds[index].line_number >= line_num THEN index
    ELSE FirstFrom(line_num, cmds, index + 1)

FirstCommandOrFirst(line_num, cmds) ==
    IF FirstFrom(line_num, cmds, 1) = 0 THEN 1 ELSE FirstFrom(line_num, cmds, 1)

_first_command_at_or_after(line_num, cmds) == FirstFrom(line_num, cmds, 1)

(***************************************************************************)
(* _filter_draws.  The dict stateful_commands is a sequence of             *)
(* <<key, value>> pairs in insertion order: assigning an existing key      *)
(* replaces its value in place, assigning a new key appends.               *)
(***************************************************************************)
DictHas(dict, key) == \E i \in 1..Len(dict) : dict[i][1] = key

DictSetKeepsFirst(dict, key, value) ==
    IF DictHas(dict, key) THEN dict ELSE Append(dict, <<key, value>>)

DictSetPerClass(dict, key, value) ==
    IF \E i \in 1..Len(dict) : dict[i][1] = key /\ dict[i][2].nv_class = value.nv_class
      THEN [i \in 1..Len(dict) |->
              IF dict[i][1] = key /\ dict[i][2].nv_class = value.nv_class
                THEN <<key, value>> ELSE dict[i]]
      ELSE Append(dict, <<key, value>>)

\* stateful_commands[command.nv_op] = command (line 446)
DictSet(dict, key, value) ==
    IF DictHas(dict, key)
      THEN [i \in 1..Len(dict) |-> IF dict[i][1] = key THEN <<key, value>> ELSE dict[i]]
      ELSE Append(dict, <<key, value>>)

DictValues(dict) == [i \in 1..Len(dict) |-> dict[i][2]]

\* sorted(values, key=line_number): a stable sort, here by insertion
RECURSIVE InsertByLine(_, _)
InsertByLine(sorted, cmd) ==
    IF sorted = <<>> THEN <<cmd>>
    ELSE IF sorted[Len(sorted)].line_number <= cmd.line_number THEN Append(sorted, cmd)
    ELSE Append(InsertByLine(SubSeq(sorted, 1, Len(sorted) - 1), cmd), sorted[Len(sorted)])

RECURSIVE SortFrom(_, _, _)
SortFrom(values, i, sorted) ==
    IF i > Len(values) THEN sorted
    ELSE SortFrom(values, i + 1, InsertByLine(sorted, values[i]))

SortedByLine(values) == SortFrom(values, 1, <<>>)

NeverStops(command, end_draw) == FALSE

\* line 441: the scan stops at the first command at or past the window's end
ScanStops(command, end_draw) == command.draw_number >= end_draw

\* the loop of lines 435-444 (the Len(..) < 0 tests are never true: they make
\* TLC evaluate the two accumulators at each step instead of nesting them)
RECURSIVE FilterScan(_, _, _, _, _, _)
FilterScan(cmds, i, start_draw, end_draw, stateful_commands, retained_commands) ==
    IF i > Len(cmds) \/ Len(retained_commands) < 0 \/ Len(stateful_commands) < 0
      THEN [stateful_commands |-> stateful_commands, retained_commands |-> retained_commands]
    ELSE LET command == cmds[i] IN
      IF command.draw_number < start_draw
        THEN FilterScan(cmds, i + 1, start_draw, end_draw,
                        IF is_stateful(command)
                          THEN DictSet(stateful_commands, command.nv_op, command)
                          ELSE stateful_commands,
                        retained_commands)
      ELSE IF ScanStops(command, end_draw)
        THEN [stateful_commands |-> stateful_commands, retained_commands |-> retained_commands]
      ELSE FilterScan(cmds, i + 1, start_draw, end_draw, stateful_commands,
                      Append(retained_commands, command))

\* lines 446-451: the sorted state commands, the marker, the window
MarkerLast(state_commands, retained_commands) ==
    state_commands \o retained_commands \o <<PGRAPHComment("END OF SETUP COMMANDS")>>

Assemble(state_commands, retained_commands) ==
    Append(state_commands, PGRAPHComment("END OF SETUP COMMANDS")) \o retained_commands

FilterDrawsZeroMeansOne(cmds, start_draw, max_draws) ==
    LET end_draw == start_draw + (IF max_draws = 0 THEN 1 ELSE max_draws)
        scan == FilterScan(cmds, 1, start_draw, end_draw, <<>>, <<>>)
        state_commands == SortedByLine(DictValues(scan.stateful_commands))
    IN  Assemble(state_commands, scan.retained_commands)

_filter_draws(cmds, start_draw, max_draws) ==
    LET end_draw == start_draw + max_draws
        scan == FilterScan(cmds, 1, start_draw, end_draw, <<>>, <<>>)
        state_commands == SortedByLine(DictValues(scan.stateful_commands))
    IN  Assemble(state_commands, scan.retained_commands)

(***************************************************************************)
(* to_c.  A printed line is a record: the fixed lines of the emitter carry *)
(* their text, a pushed command carries the prefix, the function called    *)
(* and its arguments.                                                      *)
(***************************************************************************)
Text(t) == [kind |-> "text", text |-> t]

\* 0x{nv_param:X}: the integer printed in hexadecimal (here: its digits)
Hex(n) == ToString(n)

PushDropsPrefix(prefix, fn, op, name, value, descr) ==
    [kind |-> "push", prefix |-> "  ", fn |-> fn,
     nv_op |-> op, nv_op_name |-> name, value |-> value, descr |-> descr]

\* push1_pbkit, push1f_pbkit, push_pbkitplusplus, pushf_pbkitplusplus
Push(prefix, fn, op, name, value, descr) ==
    [kind |-> "push", prefix |-> prefix, fn |-> fn,
     nv_op |-> op, nv_op_name |-> name, value |-> value, descr |-> descr]

\* push1_to_pbkit, push1f_to_pbkit, push_to_pbkitplusplus, pushf_to_pbkitplusplus
PushTo(prefix, fn, chan, cls, op, name, value) ==
    [kind |-> "push_to", prefix |-> prefix, fn |-> fn, nv_channel |-> chan,
     nv_class |-> cls, nv_op |-> op, nv_op_name |-> name, value |-> value]

PrefixIgnoresPortability(self, retain_non_portable) == "  "

\* lines 267-269
PrefixOf(self, retain_non_portable) ==
    IF is_non_portable(self) /\ ~retain_non_portable THEN "  // NONPORTABLE: " ELSE "  "

to_c(self, retain_non_portable, pbkitplusplus) ==
    IF self.kind = "comment" THEN [kind |-> "comment", message |-> self.message]
    ELSE
    LET prefix == PrefixOf(self, retain_non_portable)
    IN
    IF self.nv_class = KELVIN
      THEN LET push == IF ~pbkitplusplus THEN "pb_push1" ELSE "Pushbuffer::Push"
               pushf == IF ~pbkitplusplus THEN "pb_push1" ELSE "Pushbuffer::Push"
           IN IF self.nv_op_name # None
                THEN IF self.nv_param_float = None
                       THEN LET descr == IF self.nv_param_description \notin {None, ""}
                                           THEN self.nv_param_description ELSE ""
                            IN Push(prefix, push, self.nv_op, self.nv_op_name,
                                    Hex(self.nv_param), descr)
                       ELSE Push(prefix, pushf, self.nv_op, self.nv_op_name,
                                 self.nv_param_float, "")
                ELSE Push("//", push, self.nv_op, None, Hex(self.nv_param), "")
      ELSE LET push_to == IF ~pbkitplusplus THEN "pb_push1_to" ELSE "Pushbuffer::PushTo"
               pushf_to == IF ~pbkitplusplus THEN "pb_push1f_to" ELSE "Pushbuffer::PushTo"
           IN IF self.nv_op_name # None
                THEN IF self.nv_param_float = None
                       THEN PushTo(prefix, push_to, self.nv_channel, self.nv_class, self.nv_op,
                                   self.nv_op_name, Hex(self.nv_param))
                       ELSE PushTo(prefix, pushf_to, self.nv_channel, self.nv_class, self.nv_op,
                                   self.nv_op_name, self.nv_param_float)
                ELSE PushTo(prefix, push_to, self.nv_channel, self.nv_class, self.nv_op,
                            None, Hex(self.nv_param))

(***************************************************************************)
(* _emit_commands.                                                         *)
(***************************************************************************)
\* line 468: the test that forces a flush
FlushDue(processed_since_last_flush) == processed_since_last_flush > MAX_COMMANDS_PER_FLUSH

FlushWithoutReopen == <<Text("  pb_end(p);"), Text("  while (pb_busy()) {}")>>

\* lines 469-471: the three lines of a forced flush
FlushLines == <<Text("  pb_end(p);"), Text("  while (pb_busy()) {}"), Text("  p = pb_begin();")>>

RECURSIVE EmitLoopAlwaysCounts(_, _, _, _, _, _)
EmitLoopAlwaysCounts(cmds, i, processed_since_last_flush, printed, retain_non_portable, pbkitplusplus) ==
    IF i > Len(cmds) \/ Len(printed) < 0 THEN printed
    ELSE LET line == to_c(cmds[i], retain_non_portable, pbkitplusplus) IN
      IF FlushDue(processed_since_last_flush + 1)
        THEN EmitLoopAlwaysCounts(cmds, i + 1, 0, Append(printed, line) \o FlushLines,
                                  retain_non_portable, pbkitplusplus)
        ELSE EmitLoopAlwaysCounts(cmds, i + 1, processed_since_last_flush + 1,
                                  Append(printed, line), retain_non_portable, pbkitplusplus)

\* the loop of lines 463-472 (Len(printed) < 0 is never true: it makes TLC
\* evaluate the accumulator at each step instead of nesting it)
RECURSIVE EmitLoop(_, _, _, _, _, _)
EmitLoop(cmds, i, processed_since_last_flush, printed, retain_non_portable, pbkitplusplus) ==
    IF i > Len(cmds) \/ Len(printed) < 0 THEN printed
    ELSE LET line == to_c(cmds[i], retain_non_portable, pbkitplusplus) IN
      IF ~pbkitplusplus
        THEN IF FlushDue(processed_since_last_flush + 1)
               THEN EmitLoop(cmds, i + 1, 0, Append(printed, line) \o FlushLines,
                             retain_non_portable, pbkitplusplus)
               ELSE EmitLoop(cmds, i + 1, processed_since_last_flush + 1, Append(printed, line),
                             retain_non_portable, pbkitplusplus)
        ELSE EmitLoop(cmds, i + 1, processed_since_last_flush, Append(printed, line),
                      retain_non_portable, pbkitplusplus)

_emit_commands(cmds, retain_non_portable, pbkitplusplus) ==
    LET opened == IF ~pbkitplusplus
                    THEN <<Text("  uint32_t *p;"), Text("  p = pb_begin();")>>
                    ELSE <<Text("  Pushbuffer::Begin();")>>
        body == EmitLoop(cmds, 1, 0, opened, retain_non_portable, pbkitplusplus)
    IN  IF ~pbkitplusplus
          THEN Append(body, Text("  pb_end(p);"))
          ELSE Append(body, Text("  Pushbuffer::End();"))

(***************************************************************************)
(* The command line.  args is the namespace run() reads, that is after     *)
(* _main has turned --draw into --start_draw / --max_draws.                *)
(***************************************************************************)
\* argparse's defaults
DefaultArgs ==
    [list |-> FALSE, start_draw |-> 0, max_draws |-> 0, draw |-> 0, start_line |-> 0,
     max_commands |-> 0, retain_non_portable |-> FALSE, pbkitplusplus |-> FALSE]

\* lines 483-485
DrawOption(a) ==
    IF a.draw # 0 THEN [a EXCEPT !.start_draw = a.draw, !.max_draws = 1] ELSE a

\* the selections of a window: by line, by draw, by a single draw
LineSelections ==
    {[DefaultArgs EXCEPT !.start_line = sl, !.max_commands = mc] :
        sl \in 0..MaxStartLine, mc \in 0..MaxCommands}

DrawSelections ==
    {[DefaultArgs EXCEPT !.start_draw = sd, !.max_draws = md] :
        sd \in 1..MaxStartDraw, md \in 0..MaxDraws}
    \cup {[DefaultArgs EXCEPT !.start_draw = 1, !.max_draws = 1,
                             !.start_line = MaxStartLine, !.max_commands = 1],
          [DefaultArgs EXCEPT !.start_draw = 2,
                             !.start_line = MaxStartLine, !.max_commands = 1]}

SingleDrawSelections == {[DefaultArgs EXCEPT !.draw = 1]}

ListSelections ==
    {[DefaultArgs EXCEPT !.list = TRUE],
     [DefaultArgs EXCEPT !.list = TRUE, !.start_draw = 1, !.max_draws = 1],
     [DefaultArgs EXCEPT !.list = TRUE, !.start_line = 1]}

ArgSpace ==
    ListSelections \cup
    {[a EXCEPT !.retain_non_portable = r, !.pbkitplusplus = p] :
        a \in LineSelections \cup DrawSelections \cup SingleDrawSelections,
        r \in BOOLEAN, p \in BOOLEAN}

(***************************************************************************)
(* run(), after _process_file has returned.                                *)
(***************************************************************************)
RECURSIVE ListFromBegins(_, _, _)
ListFromBegins(cmds, i, printed) ==
    IF i > Len(cmds) THEN printed
    ELSE ListFromBegins(cmds, i + 1,
            IF is_beginend_begin(cmds[i])
              THEN Append(printed, [kind |-> "listing", command_index |-> i - 1,
                                    line_number |-> cmds[i].line_number,
                                    draw_number |-> cmds[i].draw_number])
              ELSE printed)

\* lines 491-493: one printed entry per end marker
RECURSIVE ListFrom(_, _, _)
ListFrom(cmds, i, printed) ==
    IF i > Len(cmds) THEN printed
    ELSE ListFrom(cmds, i + 1,
            IF is_beginend_end(cmds[i])
              THEN Append(printed, [kind |-> "listing", command_index |-> i - 1,
                                    line_number |-> cmds[i].line_number,
                                    draw_number |-> cmds[i].draw_number])
              ELSE printed)

\* lines 490-494
RunList(a) ==
    /\ pc = "parsed"
    /\ a.list
    /\ args' = DrawOption(a)
    /\ out' = ListFrom(pgraph_methods, 1, <<>>)
    /\ pc' = "done"
    /\ UNCHANGED <<line_number, draw_number, in_begin_end, pgraph_methods, commands, log>>

DialectOfFlag(a) == a.pbkitplusplus

\* line 498 passes no pbkitplusplus: the parameter takes its default
DialectOnDrawPath(a) == FALSE

\* lines 496-499
RunDraws(a) ==
    /\ pc = "parsed"
    /\ ~a.list
    /\ DrawOption(a).start_draw # 0
    /\ args' = DrawOption(a)
    /\ commands' = _filter_draws(pgraph_methods, args'.start_draw, args'.max_draws)
    /\ out' = _emit_commands(commands', args'.retain_non_portable, DialectOnDrawPath(args'))
    /\ pc' = "done"
    /\ UNCHANGED <<line_number, draw_number, in_begin_end, pgraph_methods, log>>

\* commands[start_index:] and commands[: max_commands], 0 standing for "not given"
FromIndex(cmds, start_index) == SubSeq(cmds, start_index, Len(cmds))

FirstN(cmds, n) == IF n >= Len(cmds) THEN cmds ELSE SubSeq(cmds, 1, n)

\* lines 501-514
RunLines(a) ==
    /\ pc = "parsed"
    /\ ~a.list
    /\ DrawOption(a).start_draw = 0
    /\ args' = DrawOption(a)
    /\ LET start_index == _first_command_at_or_after(a.start_line, pgraph_methods) IN
       IF a.start_line # 0 /\ start_index = 0
         THEN /\ pc' = "error"
              /\ UNCHANGED <<commands, out>>
         ELSE LET from == IF a.start_line # 0
                            THEN FromIndex(pgraph_methods, start_index)
                            ELSE pgraph_methods
                  cut == IF a.max_commands # 0 THEN FirstN(from, a.max_commands) ELSE from
              IN /\ commands' = cut
                 /\ out' = _emit_commands(cut, a.retain_non_portable, DialectOfFlag(a))
                 /\ pc' = "done"
    /\ UNCHANGED <<line_number, draw_number, in_begin_end, pgraph_methods, log>>

Init ==
    /\ pc = "parse"
    /\ line_number = 0
    /\ draw_number = 1
    /\ in_begin_end = FALSE
    /\ pgraph_methods = <<>>
    /\ log = <<>>
    /\ args = DefaultArgs
    /\ commands = <<>>
    /\ out = <<>>

Next ==
    \/ \E line \in PipelineLines : ProcessLine(line)
    \/ EndOfFile
    \/ \E a \in ArgSpace : RunList(a)
    \/ \E a \in ArgSpace : RunDraws(a)
    \/ \E a \in ArgSpace : RunLines(a)

Spec == Init /\ [][Next]_vars

(***************************************************************************)
(* The parser alone, on longer logs.                                       *)
(***************************************************************************)
ProcessLongLine(line) == ProcessLineUpTo(line, MaxParseLines)

NextParse ==
    \/ \E line \in LogLines : ProcessLongLine(line)
    \/ EndOfFile

SpecParse == Init /\ [][NextParse]_vars

(***************************************************************************)
(* The emitter alone, on lists longer than one flush: the run starts from  *)
(* the list _process_file returns for a log of n lines that are no         *)
(* begin/end markers.                                                      *)
(***************************************************************************)
\* nv2a_pgraph_method 0: 0x97 -> 0x1788 NV097_SET_VERTEX_DATA_ARRAY_FORMAT[40] 0x1402
LineNamed ==
    [dialect |-> "raw", chan |-> 0, cls |-> KELVIN, op |-> 6024,
     name |-> "NV097_SET_VERTEX_DATA_ARRAY_FORMAT[40]", arg |-> HexArg(5122)]

LongLogLine(i) ==
    CASE i % 3 = 1 -> LineNamed
      [] i % 3 = 2 -> LineOther
      [] OTHER -> LineOffset

LongList(n) == [i \in 1..n |-> MethodOfLine(LongLogLine(i), i, 1, FALSE)]

EmitArgSpace ==
    {[a EXCEPT !.retain_non_portable = r, !.pbkitplusplus = p] :
        a \in {DefaultArgs, [DefaultArgs EXCEPT !.start_draw = 1, !.max_draws = 1]},
        r \in BOOLEAN, p \in BOOLEAN}

InitEmit ==
    /\ pc = "parsed"
    /\ \E n \in 0..MaxEmitLen :
          /\ line_number = n
          /\ log = [i \in 1..n |-> LongLogLine(i)]
          /\ pgraph_methods = LongList(n)
          /\ commands = LongList(n)
    /\ draw_number = 1
    /\ in_begin_end = FALSE
    /\ args = DefaultArgs
    /\ out = <<>>

NextEmit ==
    \/ \E a \in EmitArgSpace : RunDraws(a)
    \/ \E a \in EmitArgSpace : RunLines(a)

SpecEmit == InitEmit /\ [][NextEmit]_vars
(***************************************************************************)
(* Properties.                                                             *)
(***************************************************************************)
N == Len(pgraph_methods)

\* a record that is the begin marker / the end marker of a draw
BeginMarker(c) == c.nv_class = 151 /\ c.nv_op = 6140 /\ c.nv_param # 0

EndMarker(c) == c.nv_class = 151 /\ c.nv_op = 6140 /\ c.nv_param = 0

\* a begin marker precedes record i with no end marker in between
OpenBefore(i) ==
    \E j \in 1..(i - 1) :
        /\ BeginMarker(pgraph_methods[j])
        /\ \A k \in (j + 1)..(i - 1) : ~EndMarker(pgraph_methods[k])

\* C1: the first record has draw_number 1, and each next record has the
\* draw_number of the one before it, plus one exactly when that one is an end
\* marker (so draw_number never decreases).
C1_DrawNumbering ==
    /\ N > 0 => pgraph_methods[1].draw_number = 1
    /\ \A i \in 1..(N - 1) :
          pgraph_methods[i + 1].draw_number =
              pgraph_methods[i].draw_number + (IF EndMarker(pgraph_methods[i]) THEN 1 ELSE 0)

\* C1 witness: a begin marker, three commands and an end marker, all of draw 1,
\* and a record after them of draw 2.
C1_Witness ==
    /\ pc = "parsed"
    /\ N = 6
    /\ BeginMarker(pgraph_methods[1])
    /\ \A i \in 2..4 : ~BeginMarker(pgraph_methods[i]) /\ ~EndMarker(pgraph_methods[i])
    /\ EndMarker(pgraph_methods[5])
    /\ \A i \in 1..5 : pgraph_methods[i].draw_number = 1
    /\ pgraph_methods[6].draw_number = 2

\* C6 as stated: in_begin_end_block is true exactly for the records after a
\* begin marker up to and including the next end marker; every begin marker
\* has it false and every end marker closing an open region has it true.
C6_Original ==
    \A i \in 1..N :
        /\ pgraph_methods[i].in_begin_end_block = OpenBefore(i)
        /\ BeginMarker(pgraph_methods[i]) => ~pgraph_methods[i].in_begin_end_block
        /\ EndMarker(pgraph_methods[i]) /\ OpenBefore(i) => pgraph_methods[i].in_begin_end_block

\* C6 amended: in_begin_end_block is true exactly for the records after a
\* begin marker up to and including the next end marker; a begin marker that
\* arrives while no region is open has it false (one arriving inside an open
\* region has it true) and every end marker closing an open region has it true.
C6_FlagIsOpenBefore ==
    \A i \in 1..N :
        /\ pgraph_methods[i].in_begin_end_block = OpenBefore(i)
        /\ BeginMarker(pgraph_methods[i]) /\ ~OpenBefore(i) => ~pgraph_methods[i].in_begin_end_block
        /\ BeginMarker(pgraph_methods[i]) /\ OpenBefore(i) => pgraph_methods[i].in_begin_end_block
        /\ EndMarker(pgraph_methods[i]) /\ OpenBefore(i) => pgraph_methods[i].in_begin_end_block

\* C6 witness: begin, a command, end, a command: false, true, true, false;
\* then a begin marker inside a region a second begin marker opened.
C6_Witness ==
    /\ pc = "parsed"
    /\ N = 6
    /\ BeginMarker(pgraph_methods[1]) /\ ~pgraph_methods[1].in_begin_end_block
    /\ ~BeginMarker(pgraph_methods[2]) /\ ~EndMarker(pgraph_methods[2])
    /\ pgraph_methods[2].in_begin_end_block
    /\ EndMarker(pgraph_methods[3]) /\ pgraph_methods[3].in_begin_end_block
    /\ ~BeginMarker(pgraph_methods[4]) /\ ~pgraph_methods[4].in_begin_end_block
    /\ BeginMarker(pgraph_methods[5]) /\ ~pgraph_methods[5].in_begin_end_block
    /\ BeginMarker(pgraph_methods[6]) /\ pgraph_methods[6].in_begin_end_block

\* C7 as stated: in_begin_end_block is true only strictly between a begin
\* marker and its end marker, and false for the begin and the end marker.
C7_Original ==
    \A i \in 1..N :
        /\ pgraph_methods[i].in_begin_end_block => OpenBefore(i)
        /\ BeginMarker(pgraph_methods[i]) => ~pgraph_methods[i].in_begin_end_block
        /\ EndMarker(pgraph_methods[i]) => ~pgraph_methods[i].in_begin_end_block

\* C7 amended: in_begin_end_block is true only for records that come after a
\* begin marker with no end marker in between; it is false for the begin
\* marker that opens a region and true for the end marker that closes one.
C7_TrueOnlyInsideOrAtEnd ==
    \A i \in 1..N :
        /\ pgraph_methods[i].in_begin_end_block => OpenBefore(i)
        /\ BeginMarker(pgraph_methods[i]) /\ ~OpenBefore(i) => ~pgraph_methods[i].in_begin_end_block
        /\ EndMarker(pgraph_methods[i]) =>
              (pgraph_methods[i].in_begin_end_block <=> OpenBefore(i))

\* C7 witness: a region closed by its end marker, which carries the flag, and a
\* record after it, which does not.
C7_Witness ==
    /\ pc = "parsed"
    /\ N = 3
    /\ BeginMarker(pgraph_methods[1]) /\ ~pgraph_methods[1].in_begin_end_block
    /\ EndMarker(pgraph_methods[2]) /\ pgraph_methods[2].in_begin_end_block
    /\ ~pgraph_methods[3].in_begin_end_block
(***************************************************************************)
(* Properties of the draw-range filter: the states in which run() has      *)
(* taken the start-draw path, where commands is _filter_draws' result.     *)
(***************************************************************************)
Filtered == pc = "done" /\ ~args.list /\ args.start_draw # 0

S == args.start_draw

W == args.max_draws

Marker == [kind |-> "comment", message |-> "END OF SETUP COMMANDS"]

\* the positions of the marker in the filtered list
MarkerAt == {k \in 1..Len(commands) : commands[k].kind = "comment"}

\* the commands before the first marker, as a set
Hoisted ==
    {commands[k] : k \in {j \in 1..Len(commands) : \A m \in MarkerAt : j < m}}

\* the parsed commands of draws before S that are stateful
StatefulBefore ==
    {pgraph_methods[i] : i \in {j \in 1..N :
        pgraph_methods[j].draw_number < S /\ is_stateful(pgraph_methods[j])}}

\* C2 as stated: no parsed command inside a begin/end region is stateful,
\* whatever its operation and class, and none is hoisted by _filter_draws.
C2_Original ==
    /\ \A i \in 1..N :
          pgraph_methods[i].in_begin_end_block => ~is_stateful(pgraph_methods[i])
    /\ Filtered => \A c \in Hoisted : ~c.in_begin_end_block

\* C2 amended: no parsed command of the graphics class 0x97 inside a begin/end
\* region is stateful, whatever its operation, and none is hoisted by
\* _filter_draws; a command of another class is stateful inside a region too.
C2_GraphicsInBlockNotStateful ==
    /\ \A i \in 1..N :
          pgraph_methods[i].in_begin_end_block =>
              (is_stateful(pgraph_methods[i]) <=> pgraph_methods[i].nv_class # 151)
    /\ Filtered => \A c \in Hoisted : c.nv_class = 151 => ~c.in_begin_end_block

\* C2 witness: a graphics command with a state-setting operation inside the
\* region of draw 1 is left out of the prefix built for start draw 2, which
\* holds a command of another class from the same region.
C2_Witness ==
    /\ Filtered
    /\ S = 2
    /\ \E i \in 1..N :
          /\ pgraph_methods[i].nv_class = 151
          /\ pgraph_methods[i].nv_op \notin STATELESS_COMMANDS
          /\ pgraph_methods[i].in_begin_end_block
          /\ pgraph_methods[i].draw_number = 1
          /\ pgraph_methods[i] \notin Hoisted
    /\ \E c \in Hoisted : c.nv_class # 151 /\ c.in_begin_end_block

\* C3: the hoisted commands are exactly, for each operation of a stateful
\* command of a draw before S, the one such command with the highest
\* line_number.
C3_LastWriterWins ==
    Filtered =>
        Hoisted = {c \in StatefulBefore :
                      \A d \in StatefulBefore :
                          d.nv_op = c.nv_op => d.line_number <= c.line_number}

\* C3 witness: two stateful commands of one operation and one of another
\* before draw S; the prefix holds the later of the two and the other one.
C3_Witness ==
    /\ Filtered
    /\ Cardinality(Hoisted) = 2
    /\ \E c \in StatefulBefore, d \in StatefulBefore :
          /\ c.nv_op = d.nv_op
          /\ c.line_number < d.line_number
          /\ c \notin Hoisted
          /\ d \in Hoisted

\* the window covers every draw of the parsed list
CoversAll == \A i \in 1..N : pgraph_methods[i].draw_number < S + W

\* C5 as stated: with S = 1 and a window covering every draw, the result is the
\* original list with one marker added as its last element.
C5_Original ==
    Filtered /\ S = 1 /\ CoversAll => commands = Append(pgraph_methods, Marker)

\* C5 amended: with S = 1 and a window covering every draw, nothing is hoisted
\* and the result is the original list, in its order, with one marker added as
\* its first (leading) element.
C5_LeadingMarker ==
    Filtered /\ S = 1 /\ CoversAll =>
        /\ Hoisted = {}
        /\ Cardinality(MarkerAt) = 1
        /\ commands = <<Marker>> \o pgraph_methods

\* C5 witness: such a run on a list of two draws that holds stateful commands.
C5_Witness ==
    /\ Filtered /\ S = 1 /\ CoversAll
    /\ N >= 3
    /\ \E i \in 1..N : pgraph_methods[i].draw_number = 2
    /\ \E i \in 1..N : is_stateful(pgraph_methods[i])
    /\ commands[1] = Marker

\* the parsed commands of the draws S .. S+W-1, in order
InWindow(c) == S <= c.draw_number /\ c.draw_number < S + W

Window == SelectSeq(pgraph_methods, InWindow)

\* C9: the result is the hoisted state commands in ascending line_number, one
\* marker, and the parsed commands of draws [S, S+W) unchanged and in order; no
\* command of a draw at or past S+W is in it.
C9_FilterShape ==
    Filtered =>
        \E k \in 1..Len(commands) :
            /\ MarkerAt = {k}
            /\ \A i \in 1..(k - 1) : commands[i] \in StatefulBefore
            /\ \A i \in 1..(k - 2) : commands[i].line_number < commands[i + 1].line_number
            /\ SubSeq(commands, k + 1, Len(commands)) = Window
            /\ \A i \in 1..Len(commands) : i # k => commands[i].draw_number < S + W

\* C9 witness: a prefix and a window that are not empty, and a parsed command
\* past the window that is dropped.
C9_Witness ==
    /\ Filtered
    /\ \E k \in 2..(Len(commands) - 1) : MarkerAt = {k}
    /\ \E i \in 1..N : pgraph_methods[i].draw_number >= S + W
    /\ W > 0
(***************************************************************************)
(* Properties of the emitted text.                                         *)
(***************************************************************************)
Emitted == pc = "done" /\ ~args.list

IsText(line, t) == line.kind = "text" /\ line.text = t

\* a line that pushes a command: a push that is not commented out
IsCommand(line) == line.kind \in {"push", "push_to"} /\ line.prefix = "  "

\* the places of out where a forced flush starts: pb_end, busy-wait, pb_begin
FlushAt ==
    {i \in 1..(Len(out) - 2) :
        /\ IsText(out[i], "  pb_end(p);")
        /\ IsText(out[i + 1], "  while (pb_busy()) {}")
        /\ IsText(out[i + 2], "  p = pb_begin();")}

\* the number of command lines between place i, a pb_begin, and the next pb_end
RECURSIVE BlockLength(_)
BlockLength(i) ==
    IF i >= Len(out) \/ IsText(out[i + 1], "  pb_end(p);") THEN 0
    ELSE BlockLength(i + 1) + (IF IsCommand(out[i + 1]) THEN 1 ELSE 0)

BlockStarts == {i \in 1..Len(out) : IsText(out[i], "  p = pb_begin();")}

\* C4 as stated: 65 commands in the pbkit dialect give exactly two forced
\* flush/reopen sequences.
C4_TwoFlushesFor65 ==
    Emitted /\ ~args.pbkitplusplus /\ args.start_draw = 0 /\ Len(commands) = 65 =>
        Cardinality(FlushAt) = 2

\* C8 as stated: whenever the pbkitplusplus flag is set, the emitted text opens
\* with Pushbuffer::Begin, closes with Pushbuffer::End and holds no pb_begin or
\* pb_end, on the start-line path and on the start-draw path.
C8_DialectFollowsFlag ==
    Emitted /\ args.pbkitplusplus =>
        /\ IsText(out[1], "  Pushbuffer::Begin();")
        /\ IsText(out[Len(out)], "  Pushbuffer::End();")
        /\ \A i \in 1..Len(out) :
              ~IsText(out[i], "  p = pb_begin();") /\ ~IsText(out[i], "  pb_end(p);")

\* C10 as stated: in the pbkit dialect no pb_begin ... pb_end block holds more
\* than MAX_COMMANDS_PER_FLUSH command lines (counting the live pushes only).
C10_BlockWithinCapacity ==
    Emitted => \A i \in BlockStarts : BlockLength(i) <= 32
(***************************************************************************)
(* Properties of the rendering of the commands.                            *)
(***************************************************************************)
IsRendering(line) == line.kind \in {"push", "push_to", "comment"}

\* the lines to_c gave, one per command of the emitted list, in order
Rendered == SelectSeq(out, IsRendering)

\* a rendered command that is commented out
Commented(line) == line.kind \in {"push", "push_to"} /\ line.prefix # "  "

Unnamed(c) == c.kind = "method" /\ c.nv_op_name = "None"

\* C11 as stated: every record without operation_name is rendered as a
\* commented-out line, in both dialects and for every device class.
C11_Original ==
    Emitted =>
        \A k \in 1..Len(commands) : Unnamed(commands[k]) => Commented(Rendered[k])

\* C11 amended: a record without operation_name is rendered as a commented-out
\* push when its class is the graphics class 0x97 and as a live push-to line
\* when its class is another one, in both dialects.
C11_UnnamedByClass ==
    Emitted =>
        /\ Len(Rendered) = Len(commands)
        /\ \A k \in 1..Len(commands) :
              Unnamed(commands[k]) =>
                  IF commands[k].nv_class = 151
                    THEN Rendered[k].kind = "push" /\ Rendered[k].prefix = "//"
                    ELSE Rendered[k].kind = "push_to" /\ Rendered[k].prefix = "  "

\* C11 witness: the PBKitPlusPlus text of a list that holds an unnamed
\* graphics record, commented out, and an unnamed record of class 0x39, live.
C11_Witness ==
    /\ Emitted
    /\ IsText(out[1], "  Pushbuffer::Begin();")
    /\ \E k \in 1..Len(commands) :
          /\ Unnamed(commands[k]) /\ commands[k].nv_class = 151
          /\ Rendered[k].fn = "Pushbuffer::Push" /\ Commented(Rendered[k])
    /\ \E k \in 1..Len(commands) :
          /\ Unnamed(commands[k]) /\ commands[k].nv_class = 57
          /\ Rendered[k].fn = "Pushbuffer::PushTo" /\ ~Commented(Rendered[k])

\* the operations, parameters and flags a record is tried with
SampleOps == STATELESS_COMMANDS \cup NON_PORTABLE_STATEFUL_COMMANDS \cup {0, 6144}

\* C12: a command whose class is not 0x97 is stateful, whatever its operation,
\* parameter and in_begin_end_block flag.
C12_OtherClassStateful ==
    \A i \in 1..N :
        pgraph_methods[i].nv_class # 151 =>
            \A op \in SampleOps, param \in {0, 1}, flag \in BOOLEAN :
                is_stateful([pgraph_methods[i] EXCEPT !.nv_op = op, !.nv_param = param,
                                                      !.in_begin_end_block = flag])

\* C12 witness: two parsed records of class 0x39, one inside a begin/end region
\* and one outside, both stateful.
C12_Witness ==
    /\ pc = "parsed"
    /\ \E i \in 1..N, j \in 1..N :
          /\ pgraph_methods[i].nv_class = 57 /\ pgraph_methods[j].nv_class = 57
          /\ pgraph_methods[i].in_begin_end_block /\ ~pgraph_methods[j].in_begin_end_block
          /\ is_stateful(pgraph_methods[i]) /\ is_stateful(pgraph_methods[j])

NonPortable(c) ==
    c.kind = "method" /\ c.nv_class = 151 /\ c.nv_op \in NON_PORTABLE_STATEFUL_COMMANDS

\* C13: without retain_non_portable every non-portable command of the emitted
\* list is rendered commented out, on the start-line and the start-draw path
\* and in both dialects; with it the command is rendered by its other fields.
C13_NonPortableCommented ==
    Emitted =>
        /\ Len(Rendered) = Len(commands)
        /\ \A k \in 1..Len(commands) :
              NonPortable(commands[k]) =>
                  /\ ~args.retain_non_portable => Commented(Rendered[k])
                  /\ ~Commented(Rendered[k]) => args.retain_non_portable

\* C13 witness: a non-portable command hoisted on the start-draw path and one
\* in the window, both commented out, without retain_non_portable.
C13_Witness ==
    /\ Filtered
    /\ ~args.retain_non_portable
    /\ \E k \in 1..Len(commands), m \in MarkerAt :
          /\ k < m
          /\ NonPortable(commands[k])
          /\ Rendered[k].prefix = "  // NONPORTABLE: "
    /\ \E k \in 1..Len(commands), m \in MarkerAt :
          /\ k > m
          /\ NonPortable(commands[k])
          /\ Rendered[k].prefix = "  // NONPORTABLE: "
(***************************************************************************)
(* Properties of the errors and of list mode.                              *)
(***************************************************************************)
Ended == pc \in {"done", "error"}

\* a start line was requested and no parsed command is on or after it
NoCommandFromStartLine ==
    /\ args.start_line # 0
    /\ \A i \in 1..N : pgraph_methods[i].line_number < args.start_line

\* C14 as stated: such a run ends in an error with nothing printed, whatever
\* other options accompany the start line.
C14_Original ==
    Ended /\ NoCommandFromStartLine => pc = "error" /\ out = <<>>

\* C14 amended: such a run ends in an error with nothing printed when neither
\* list mode nor a start draw is selected, whatever the max command count and
\* the dialect; with list mode or a start draw the start line is not looked at.
C14_RangeErrorOnLinePath ==
    Ended /\ NoCommandFromStartLine =>
        IF ~args.list /\ args.start_draw = 0
          THEN pc = "error" /\ out = <<>>
          ELSE pc = "done"

\* C14 witness: a start line past the only command of the list, with a max
\* command count and the PBKitPlusPlus dialect: the error, and no text.
C14_Witness ==
    /\ pc = "error"
    /\ N = 1
    /\ NoCommandFromStartLine
    /\ args.max_commands # 0
    /\ args.pbkitplusplus
    /\ out = <<>>

\* line i of the log matches the annotated dialect and its argument matches
\* none of the five sub-forms
MalformedAt(i) ==
    /\ log[i].dialect = "pretty"
    /\ log[i].arg.form \notin {"float", "bitvector", "named", "hex", "raw"}

\* C15: once such a line was read the run has ended in an error, no list was
\* returned, nothing was listed or emitted, and no record stands for the line.
C15_MalformedAborts ==
    \A i \in 1..Len(log) :
        MalformedAt(i) =>
            /\ pc = "error"
            /\ commands = <<>>
            /\ out = <<>>
            /\ \A k \in 1..N : pgraph_methods[k].line_number # i

\* C15 witness: the malformed line is the fourth one, after a whole draw.
C15_Witness ==
    /\ pc = "error"
    /\ Len(log) = 4
    /\ MalformedAt(4)
    /\ N = 3
    /\ EndMarker(pgraph_methods[2])
    /\ pgraph_methods[3].draw_number = 2

EndMarkerPositions == {i \in 1..N : EndMarker(pgraph_methods[i])}

\* C16: list mode filters and emits nothing, whatever the other options; it
\* prints one entry per end marker in list order, numbered 1, 2, ..., each with
\* the line number of its end marker.
C16_ListMode ==
    pc = "done" /\ args.list =>
        /\ commands = pgraph_methods
        /\ Len(out) = Cardinality(EndMarkerPositions)
        /\ \A k \in 1..Len(out) :
              /\ out[k].kind = "listing"
              /\ out[k].draw_number = k
              /\ out[k].command_index + 1 \in EndMarkerPositions
              /\ out[k].line_number = pgraph_methods[out[k].command_index + 1].line_number
              /\ k > 1 => out[k - 1].command_index < out[k].command_index

\* C16 witness: list mode with a start draw on a list of two draws.
C16_Witness ==
    /\ pc = "done"
    /\ args.list
    /\ args.start_draw # 0
    /\ Len(out) = 2
    /\ N = 4
(***************************************************************************)
(* Properties of the buffer protocol of the two dialects.                  *)
(***************************************************************************)
\* the run emitted in the pbkit dialect / in the PBKitPlusPlus dialect
PbkitRun == Emitted /\ (args.start_draw # 0 \/ ~args.pbkitplusplus)

PlusPlusRun == Emitted /\ args.start_draw = 0 /\ args.pbkitplusplus

IsAcquire(line) == IsText(line, "  p = pb_begin();")

IsRelease(line) == IsText(line, "  pb_end(p);")

IsBusyWait(line) == IsText(line, "  while (pb_busy()) {}")

\* the places of the acquisitions and releases among the first i lines
MarkersUpTo(i) == {j \in 1..i : IsAcquire(out[j]) \/ IsRelease(out[j])}

\* a buffer is open after line i: the last acquisition or release is an acquisition
OpenAfter(i) ==
    /\ MarkersUpTo(i) # {}
    /\ IsAcquire(out[CHOOSE j \in MarkersUpTo(i) : \A k \in MarkersUpTo(i) : k <= j])

\* C17: in the pbkit dialect the output opens with the declaration of p and a
\* pb_begin and closes with a pb_end, pb_begin and pb_end strictly alternate,
\* every rendered command stands where a buffer is open, and every pb_end but
\* the closing one is followed by the busy-wait and a pb_begin, the busy-wait
\* standing nowhere else.
C17_PbkitBufferProtocol ==
    PbkitRun =>
        /\ Len(out) >= 3
        /\ IsText(out[1], "  uint32_t *p;")
        /\ IsAcquire(out[2])
        /\ IsRelease(out[Len(out)])
        /\ \A i \in 2..Len(out) :
              /\ IsAcquire(out[i]) => ~OpenAfter(i - 1)
              /\ IsRelease(out[i]) => OpenAfter(i - 1)
              /\ IsRendering(out[i]) => OpenAfter(i - 1)
              /\ IsRelease(out[i]) /\ i < Len(out) =>
                    IsBusyWait(out[i + 1]) /\ IsAcquire(out[i + 2])
              /\ IsBusyWait(out[i]) => IsRelease(out[i - 1]) /\ IsAcquire(out[i + 1])
              /\ \/ IsAcquire(out[i]) \/ IsRelease(out[i])
                 \/ IsBusyWait(out[i]) \/ IsRendering(out[i])

\* C17 witness: a pbkit output with two forced flushes and commands after the
\* second one.
C17_Witness ==
    /\ PbkitRun
    /\ Cardinality(FlushAt) = 2
    /\ IsRendering(out[Len(out) - 1])

\* C18: in the PBKitPlusPlus dialect the output is Pushbuffer::Begin, one
\* rendered line per command, Pushbuffer::End: one Begin, one End, and no
\* pb_end, busy-wait or pb_begin, whatever the length of the list.
C18_PlusPlusNeverFlushes ==
    PlusPlusRun =>
        /\ Len(out) = Len(commands) + 2
        /\ IsText(out[1], "  Pushbuffer::Begin();")
        /\ IsText(out[Len(out)], "  Pushbuffer::End();")
        /\ \A i \in 2..(Len(out) - 1) : IsRendering(out[i])
        /\ FlushAt = {}

\* C18 witness: a PBKitPlusPlus output for a list of more than twice the
\* flush capacity.
C18_Witness ==
    /\ PlusPlusRun
    /\ Len(commands) > 2 * MAX_COMMANDS_PER_FLUSH
    /\ Len(out) = Len(commands) + 2

(***************************************************************************)
(* Properties of the list _process_file builds, against the lines read.    *)
(***************************************************************************)
\* the positions of the lines read that match a dialect
Matching == {i \in 1..Len(log) : log[i].dialect # "none"}

\* C19: as long as no malformed line was read, the list holds one record per
\* line read that matches a dialect, in file order, each with the 1-based
\* position of its line and the tokens of that line; draw_number and the
\* begin/end flag are those the records alone give, so the lines that match
\* no dialect change neither.
C19_OneRecordPerMatchingLine ==
    (\A i \in 1..Len(log) : ~MalformedAt(i)) =>
        /\ line_number = Len(log)
        /\ N = Cardinality(Matching)
        /\ \A k \in 1..N :
              /\ pgraph_methods[k].line_number \in Matching
              /\ k > 1 => pgraph_methods[k - 1].line_number < pgraph_methods[k].line_number
              /\ LET line == log[pgraph_methods[k].line_number] IN
                    /\ pgraph_methods[k].nv_channel = line.chan
                    /\ pgraph_methods[k].nv_class = line.cls
                    /\ pgraph_methods[k].nv_op = line.op
                    /\ pgraph_methods[k].nv_param = line.arg.hex
        /\ draw_number = 1 + Cardinality(EndMarkerPositions)
        /\ in_begin_end = OpenBefore(N + 1)

\* C19 witness: a log whose first and third lines match no dialect, the third
\* one standing inside a begin/end region: records for lines 2, 4 and 5.
C19_Witness ==
    /\ Len(log) = 5
    /\ Matching = {2, 4, 5}
    /\ N = 3
    /\ pgraph_methods[1].line_number = 2
    /\ BeginMarker(pgraph_methods[1])
    /\ pgraph_methods[2].line_number = 4
    /\ pgraph_methods[2].in_begin_end_block
    /\ EndMarker(pgraph_methods[3])
    /\ draw_number = 2

\* C20: the prefix holds at most one command per operation offset, and a
\* stateful command before draw S is left out of it whenever a later stateful
\* command before draw S has its operation offset, whatever the device classes
\* and channels of the two.
C20_PrefixKeyedByOperation ==
    Filtered =>
        /\ \A k \in 1..Len(commands), m \in 1..Len(commands) :
              (/\ k < m
               /\ \A j \in MarkerAt : m < j)
                  => commands[k].nv_op # commands[m].nv_op
        /\ \A c \in StatefulBefore, d \in StatefulBefore :
              c.nv_op = d.nv_op /\ c.line_number < d.line_number => c \notin Hoisted

\* C20 witness: a graphics command and a later command of another class and
\* channel with the same operation offset, both stateful and before draw S;
\* the prefix holds the later one only.
C20_Witness ==
    /\ Filtered
    /\ \E c \in StatefulBefore, d \in StatefulBefore :
          /\ c.nv_op = d.nv_op
          /\ c.nv_class # d.nv_class
          /\ c.nv_channel # d.nv_channel
          /\ c.line_number < d.line_number
          /\ c \notin Hoisted
          /\ d \in Hoisted
(***************************************************************************)
(* Properties of a start draw given without a maximum draw count.          *)
(***************************************************************************)
\* the run selected a start draw and left max_draws at its default
DefaultWindow == Filtered /\ W = 0

\* C21: with a start draw S and max_draws left at 0 the filtered list is the
\* state prefix (for each operation the last stateful command before draw S,
\* in ascending line_number) followed by the marker as its last element, with
\* no command of draw S or later; the emitted text is the pbkit frame around
\* the rendering of that list, so the start line and the max command count,
\* which none of these mention, have no effect on it.
C21_EmptyWindowByDefault ==
    DefaultWindow =>
        /\ Len(commands) >= 1
        /\ MarkerAt = {Len(commands)}
        /\ \A i \in 1..(Len(commands) - 1) :
              /\ commands[i] \in StatefulBefore
              /\ commands[i].draw_number < S
              /\ i > 1 => commands[i - 1].line_number < commands[i].line_number
        /\ {commands[i] : i \in 1..(Len(commands) - 1)} =
              {c \in StatefulBefore :
                  \A d \in StatefulBefore :
                      d.nv_op = c.nv_op => d.line_number <= c.line_number}
        /\ \A i \in 1..N :
              pgraph_methods[i].draw_number >= S =>
                  \A k \in 1..Len(commands) : commands[k] # pgraph_methods[i]
        /\ Rendered = [i \in 1..Len(commands) |->
                          to_c(commands[i], args.retain_non_portable, DialectOnDrawPath(args))]
        /\ IsText(out[1], "  uint32_t *p;")
        /\ IsText(out[2], "  p = pb_begin();")
        /\ IsText(out[Len(out)], "  pb_end(p);")
        /\ Len(out) = Len(commands) + 3 + 3 * Cardinality(FlushAt)

\* C21 witness: start draw 2 without a maximum draw count, with a start line
\* and a max command count of 1: the prefix holds two commands, one of them
\* from a line before the start line, and the parsed command of draw 2 is left
\* out.
C21_Witness ==
    /\ DefaultWindow
    /\ S = 2
    /\ args.start_line # 0
    /\ args.max_commands # 0
    /\ Len(commands) = 3
    /\ Len(commands) > args.max_commands + 1
    /\ commands[1].line_number < args.start_line
    /\ \E i \in 1..N : pgraph_methods[i].draw_number = S
====
